---- MODULE Spec2Model ----
(***************************************************************************)
(* A model of docs_setup.py, the setup script of the AgentBridge           *)
(* documentation site: the config check, the directory scaffolder, the     *)
(* dependency installer, the placeholder generator and the menu loop.      *)
(*                                                                         *)
(* Paths and names are sequences of one-character strings, so that the     *)
(* path and string methods the script calls (parent, name, stem, replace,  *)
(* title) are computed character by character.  The file system maps the   *)
(* path strings of the script to what is on disk there.                    *)
(***************************************************************************)
EXTENDS Integers, Sequences, FiniteSets, TLC

\* The most entries (user pages, directories, stray files) that are on disk
\* under the paths of the script before its first run.
MaxPreexisting == 1

\* The most menu choices that are read in one run.
MaxMenuRounds == 2

(***************************************************************************)
(* The fixed lists of the script.                                          *)
(***************************************************************************)
DOCS_DIRS ==
  << <<"d","o","c","s","/","a","s","s","e","t","s">>,
     <<"d","o","c","s","/","g","e","t","t","i","n","g","-","s","t","a","r","t","e","d">>,
     <<"d","o","c","s","/","c","o","r","e">>,
     <<"d","o","c","s","/","w","e","b","/","r","e","a","c","t">>,
     <<"d","o","c","s","/","w","e","b","/","a","n","g","u","l","a","r">>,
     <<"d","o","c","s","/","m","o","b","i","l","e","/","r","e","a","c","t","-","n","a","t","i","v","e">>,
     <<"d","o","c","s","/","m","o","b","i","l","e","/","f","l","u","t","t","e","r">>,
     <<"d","o","c","s","/","a","d","v","a","n","c","e","d">>,
     <<"d","o","c","s","/","d","e","v","e","l","o","p","m","e","n","t">> >>

expected_files ==
  << <<"d","o","c","s","/","i","n","d","e","x",".","m","d">>,
     <<"d","o","c","s","/","g","e","t","t","i","n","g","-","s","t","a","r","t","e","d","/","i","n","s","t","a","l","l","a","t","i","o","n",".","m","d">>,
     <<"d","o","c","s","/","g","e","t","t","i","n","g","-","s","t","a","r","t","e","d","/","q","u","i","c","k","-","s","t","a","r","t",".","m","d">>,
     <<"d","o","c","s","/","c","o","r","e","/","o","v","e","r","v","i","e","w",".","m","d">>,
     <<"d","o","c","s","/","c","o","r","e","/","a","p","i","-","r","e","f","e","r","e","n","c","e",".","m","d">>,
     <<"d","o","c","s","/","c","o","r","e","/","f","u","n","c","t","i","o","n","-","r","e","g","i","s","t","r","y",".","m","d">>,
     <<"d","o","c","s","/","c","o","r","e","/","t","y","p","e","-","s","y","s","t","e","m",".","m","d">>,
     <<"d","o","c","s","/","w","e","b","/","r","e","a","c","t","/","o","v","e","r","v","i","e","w",".","m","d">>,
     <<"d","o","c","s","/","w","e","b","/","r","e","a","c","t","/","c","o","m","p","o","n","e","n","t","s",".","m","d">>,
     <<"d","o","c","s","/","w","e","b","/","r","e","a","c","t","/","h","o","o","k","s",".","m","d">>,
     <<"d","o","c","s","/","w","e","b","/","a","n","g","u","l","a","r","/","o","v","e","r","v","i","e","w",".","m","d">>,
     <<"d","o","c","s","/","w","e","b","/","a","n","g","u","l","a","r","/","c","o","m","p","o","n","e","n","t","s",".","m","d">>,
     <<"d","o","c","s","/","w","e","b","/","a","n","g","u","l","a","r","/","s","e","r","v","i","c","e","s",".","m","d">>,
     <<"d","o","c","s","/","m","o","b","i","l","e","/","r","e","a","c","t","-","n","a","t","i","v","e","/","o","v","e","r","v","i","e","w",".","m","d">>,
     <<"d","o","c","s","/","m","o","b","i","l","e","/","r","e","a","c","t","-","n","a","t","i","v","e","/","c","o","m","p","o","n","e","n","t","s",".","m","d">>,
     <<"d","o","c","s","/","m","o","b","i","l","e","/","f","l","u","t","t","e","r","/","o","v","e","r","v","i","e","w",".","m","d">>,
     <<"d","o","c","s","/","m","o","b","i","l","e","/","f","l","u","t","t","e","r","/","c","o","m","p","o","n","e","n","t","s",".","m","d">>,
     <<"d","o","c","s","/","a","d","v","a","n","c","e","d","/","a","u","t","h","e","n","t","i","c","a","t","i","o","n",".","m","d">>,
     <<"d","o","c","s","/","a","d","v","a","n","c","e","d","/","e","r","r","o","r","-","h","a","n","d","l","i","n","g",".","m","d">>,
     <<"d","o","c","s","/","a","d","v","a","n","c","e","d","/","c","u","s","t","o","m","-","a","d","a","p","t","e","r","s",".","m","d">>,
     <<"d","o","c","s","/","d","e","v","e","l","o","p","m","e","n","t","/","c","o","n","t","r","i","b","u","t","i","n","g",".","m","d">>,
     <<"d","o","c","s","/","d","e","v","e","l","o","p","m","e","n","t","/","a","r","c","h","i","t","e","c","t","u","r","e",".","m","d">> >>

arch_diagram_path ==
  <<"d","o","c","s","/","a","s","s","e","t","s","/","a","g","e","n","t","b","r","i","d","g","e","-","a","r","c","h","i","t","e","c","t","u","r","e",".","p","n","g">>

mkdocs_yml ==
  <<"m","k","d","o","c","s",".","y","m","l">>

(***************************************************************************)
(* Strings.                                                                *)
(***************************************************************************)
LowerCase ==
  <<"a","b","c","d","e","f","g","h","i","j","k","l","m",
    "n","o","p","q","r","s","t","u","v","w","x","y","z">>

UpperCase ==
  <<"A","B","C","D","E","F","G","H","I","J","K","L","M",
    "N","O","P","Q","R","S","T","U","V","W","X","Y","Z">>

IndexIn(c, alphabet) ==
  IF \E i \in 1..Len(alphabet) : alphabet[i] = c
  THEN CHOOSE i \in 1..Len(alphabet) : alphabet[i] = c
  ELSE 0

islower(c) == IndexIn(c, LowerCase) > 0

isupper(c) == IndexIn(c, UpperCase) > 0

toupper(c) == IF islower(c) THEN UpperCase[IndexIn(c, LowerCase)] ELSE c

tolower(c) == IF isupper(c) THEN LowerCase[IndexIn(c, UpperCase)] ELSE c

\* The string of a sequence of characters.
RECURSIVE Str(_)
Str(cs) == IF cs = <<>> THEN "" ELSE Head(cs) \o Str(Tail(cs))

\* s.replace(old, new) for one-character old and new.
str_replace(cs, old, new) ==
  [i \in 1..Len(cs) |-> IF cs[i] = old THEN new ELSE cs[i]]

\* s.title(): a cased character is upper-cased when the character before
\* it is not cased and lower-cased when it is; the others are kept.
RECURSIVE title_from(_, _, _)
title_from(cs, i, previous_is_cased) ==
  IF i > Len(cs) THEN <<>>
  ELSE LET c == cs[i]
       IN IF islower(c)
          THEN <<IF previous_is_cased THEN c ELSE toupper(c)>>
                 \o title_from(cs, i + 1, TRUE)
          ELSE IF isupper(c)
          THEN <<IF previous_is_cased THEN tolower(c) ELSE c>>
                 \o title_from(cs, i + 1, TRUE)
          ELSE <<c>> \o title_from(cs, i + 1, FALSE)

str_title(cs) == title_from(cs, 1, FALSE)

(***************************************************************************)
(* Paths.                                                                  *)
(***************************************************************************)
\* The last index of character c in cs, 0 when there is none.
rfind(cs, c) ==
  IF \E i \in 1..Len(cs) : cs[i] = c
  THEN CHOOSE i \in 1..Len(cs) :
         cs[i] = c /\ \A j \in (i + 1)..Len(cs) : cs[j] # c
  ELSE 0

\* Path(".")
CurrentDir == <<".">>

\* Path.parent: the path without its last component; a path of one
\* component has the current directory as its parent, which is its own.
path_parent(cs) ==
  IF rfind(cs, "/") = 0 THEN CurrentDir ELSE SubSeq(cs, 1, rfind(cs, "/") - 1)

\* Path.name: the last component.
path_name(cs) == SubSeq(cs, rfind(cs, "/") + 1, Len(cs))

\* Path.stem: the name without its last suffix.
path_stem(cs) ==
  LET name == path_name(cs)
      dot == rfind(name, ".")
  IN IF 1 < dot /\ dot < Len(name) THEN SubSeq(name, 1, dot - 1) ELSE name

\* The path and its ancestors below the current directory.
RECURSIVE WithAncestors(_)
WithAncestors(cs) ==
  IF cs = CurrentDir THEN {} ELSE {cs} \cup WithAncestors(path_parent(cs))

Range(s) == {s[i] : i \in 1..Len(s)}

DirPaths == UNION {WithAncestors(d) : d \in Range(DOCS_DIRS)}

FilePaths == Range(expected_files) \cup {arch_diagram_path}

\* Every path the script looks at or writes, as strings.
AllPaths ==
  {Str(p) : p \in DirPaths \cup FilePaths
                  \cup UNION {WithAncestors(path_parent(f)) : f \in FilePaths}
                  \cup {mkdocs_yml}}

(***************************************************************************)
(* The file system: what is at each path.                                  *)
(***************************************************************************)
Absent == [kind |-> "absent", content |-> <<>>]

Dir == [kind |-> "dir", content |-> <<>>]

File(content) == [kind |-> "file", content |-> content]

\* What is at path cs; the current directory is a directory.
KindAt(f, cs) == IF cs = CurrentDir THEN "dir" ELSE f[Str(cs)].kind

\* Path.exists()
path_exists(f, cs) == KindAt(f, cs) # "absent"

\* Path.is_dir()
path_is_dir(f, cs) == KindAt(f, cs) = "dir"

\* os.mkdir(path): the file system after it and the exception it raises.
os_mkdir(f, cs) ==
  IF KindAt(f, cs) # "absent" THEN [fs |-> f, exc |-> "FileExistsError"]
  ELSE IF KindAt(f, path_parent(cs)) = "absent"
  THEN [fs |-> f, exc |-> "FileNotFoundError"]
  ELSE IF KindAt(f, path_parent(cs)) = "file"
  THEN [fs |-> f, exc |-> "NotADirectoryError"]
  ELSE [fs |-> [f EXCEPT ![Str(cs)] = Dir], exc |-> "none"]

\* Path.mkdir(parents=False, exist_ok=True): an OSError other than a
\* missing parent is swallowed when the path is a directory.
mkdir_exist_ok(f, cs) ==
  LET r == os_mkdir(f, cs)
  IN IF r.exc \in {"none", "FileNotFoundError"} THEN r
     ELSE IF path_is_dir(f, cs) THEN [fs |-> f, exc |-> "none"]
     ELSE r

\* Path.mkdir(parents=True, exist_ok=True): a missing parent is made first,
\* in the same way, and the path after it.
RECURSIVE mkdir_parents(_, _)
mkdir_parents(f, cs) ==
  LET r == os_mkdir(f, cs)
  IN IF r.exc = "none" THEN r
     ELSE IF r.exc = "FileNotFoundError"
     THEN IF path_parent(cs) = cs THEN r
          ELSE LET up == mkdir_parents(f, path_parent(cs))
               IN IF up.exc # "none" THEN up ELSE mkdir_exist_ok(up.fs, cs)
     ELSE IF path_is_dir(f, cs) THEN [fs |-> f, exc |-> "none"]
     ELSE r

\* Path.write_text(content): open(path, "w"), write, close.
write_text(f, cs, content) ==
  IF KindAt(f, path_parent(cs)) = "absent"
  THEN [fs |-> f, exc |-> "FileNotFoundError"]
  ELSE IF KindAt(f, path_parent(cs)) = "file"
  THEN [fs |-> f, exc |-> "NotADirectoryError"]
  ELSE IF KindAt(f, cs) = "dir" THEN [fs |-> f, exc |-> "IsADirectoryError"]
  ELSE [fs |-> [f EXCEPT ![Str(cs)] = File(content)], exc |-> "none"]

(***************************************************************************)
(* The steps of the script as functions of the file system and of what     *)
(* was printed so far.                                                     *)
(***************************************************************************)
mkdir_directory(f, cs) == mkdir_parents(f, cs)

created_directory_line(cs) == "Created directory: " \o Str(cs)

\* create_directories(), from the i-th entry of DOCS_DIRS on: an exception
\* of mkdir ends the loop with what was made and printed before it.
RECURSIVE create_directories_from(_, _, _)
create_directories_from(i, f, out) ==
  IF i > Len(DOCS_DIRS) THEN [fs |-> f, stdout |-> out, exc |-> "none"]
  ELSE LET r == mkdir_directory(f, DOCS_DIRS[i])
       IN IF r.exc # "none" THEN [fs |-> r.fs, stdout |-> out, exc |-> r.exc]
          ELSE create_directories_from(
                 i + 1, r.fs, Append(out, created_directory_line(DOCS_DIRS[i])))

create_directories(f, out) == create_directories_from(1, f, out)

placeholder_title(cs) == Str(str_title(str_replace(path_stem(cs), "-", " ")))

placeholder_parent(cs) ==
  Str(str_title(str_replace(path_name(path_parent(cs)), "-", " ")))

\* The placeholder text of a page, as the pieces the f-string joins.
placeholder_content(cs) ==
  << "# ", placeholder_title(cs),
     "\n\nThis page is under construction. It will contain documentation about ",
     placeholder_title(cs), " in the ", placeholder_parent(cs),
     " section.\n\n## Coming Soon\n\nCheck back soon for detailed documentation on this topic.\n" >>

\* A variant that writes the placeholder whatever is on disk.
placeholder_needed_always(f, cs) == KindAt(f, cs) # "dir"

\* The test that guards the write of a placeholder.
placeholder_needed(f, cs) == ~path_exists(f, cs)

created_placeholder_line(cs) == "Created placeholder file: " \o Str(cs)

\* The loop of create_placeholder_files(), from the i-th expected file on.
RECURSIVE create_placeholder_files_from(_, _, _)
create_placeholder_files_from(i, f, out) ==
  IF i > Len(expected_files) THEN [fs |-> f, stdout |-> out, exc |-> "none"]
  ELSE LET cs == expected_files[i]
       IN IF placeholder_needed(f, cs)
          THEN LET r == write_text(f, cs, placeholder_content(cs))
               IN IF r.exc # "none"
                  THEN [fs |-> r.fs, stdout |-> out, exc |-> r.exc]
                  ELSE create_placeholder_files_from(
                         i + 1, r.fs, Append(out, created_placeholder_line(cs)))
          ELSE create_placeholder_files_from(i + 1, f, out)

architecture_note ==
  "Note: Please create an architecture diagram at " \o Str(arch_diagram_path)

create_placeholder_files(f, out) ==
  create_placeholder_files_from(
    1, f,
    IF ~path_exists(f, arch_diagram_path) THEN Append(out, architecture_note)
    ELSE out)

(***************************************************************************)
(* Child processes and the exceptions of subprocess.run(check=True).       *)
(***************************************************************************)
pip_install ==
  <<"sys.executable", "-m", "pip", "install", "mkdocs", "mkdocs-material",
    "pymdown-extensions", "mkdocs-git-revision-date-localized-plugin">>

mkdocs_build == <<"mkdocs", "build">>

mkdocs_serve == <<"mkdocs", "serve">>

\* How a child process may end: it exits with status zero, it exits with
\* another status, an interrupt arrives while the script waits for it, or
\* its program is not found.
PipOutcomes == {"exit_zero", "exit_nonzero", "interrupt"}

MkdocsOutcomes == {"exit_zero", "exit_nonzero", "interrupt", "not_found"}

subprocess_run(outcome) ==
  CASE outcome = "exit_zero" -> "none"
    [] outcome = "exit_nonzero" -> "CalledProcessError"
    [] outcome = "interrupt" -> "KeyboardInterrupt"
    [] outcome = "not_found" -> "FileNotFoundError"

\* A variant of install_dependencies whose except clause catches nothing.
install_dependencies_handler_none(exc) == "propagate"

\* A variant of install_dependencies with a bare except clause.
install_dependencies_handler_bare(exc) == "exit"

\* A variant of build_documentation whose except clause catches nothing.
build_documentation_handler_none(exc) == "propagate"

\* A variant of serve_documentation without the KeyboardInterrupt clause.
serve_documentation_handler_no_interrupt(exc) ==
  IF exc = "CalledProcessError" THEN "exit" ELSE "propagate"

\* The except clauses of the three callers.
install_dependencies_handler(exc) ==
  IF exc = "CalledProcessError" THEN "exit" ELSE "propagate"

build_documentation_handler(exc) ==
  IF exc = "CalledProcessError" THEN "exit" ELSE "propagate"

serve_documentation_handler(exc) ==
  IF exc = "CalledProcessError" THEN "exit"
  ELSE IF exc = "KeyboardInterrupt" THEN "stopped"
  ELSE "propagate"

(***************************************************************************)
(* The state of a run.                                                     *)
(***************************************************************************)
VARIABLES
  pc,           \* where main() is
  fs,           \* the file system: path string -> what is there
  stdout,       \* the lines printed by this run
  calls,        \* the child processes started by this run, as argv
  choice,       \* main's variable choice
  termination,  \* "running", or how the process ended
  rounds        \* the menu inputs read by this run

vars == <<pc, fs, stdout, calls, choice, termination, rounds>>

\* The process ended with a status other than zero: by sys.exit(1) or by
\* an exception nothing caught.
NonZeroExit == termination \notin {"running", "exit 0"}

(***************************************************************************)
(* The working directory before the first run.                             *)
(***************************************************************************)
UserText == <<"text written by the user">>

\* What may be on disk: a file at any path of the script, a directory at
\* any of its directory paths.
Preexisting ==
  {<<p, "file">> : p \in FilePaths \cup DirPaths}
    \cup {<<p, "dir">> : p \in DirPaths}

RECURSIVE Choices(_)
Choices(k) ==
  IF k = 0 THEN {{}}
  ELSE LET less == Choices(k - 1)
       IN less \cup {c \cup {e} : c \in less, e \in Preexisting}

\* One entry a path, and nothing below a file.
Consistent(c) ==
  \A e1, e2 \in c :
    e1 # e2 =>
      /\ e1[1] # e2[1]
      /\ e1[2] = "file" => e1[1] \notin WithAncestors(e2[1])

FileSystemOf(c, config) ==
  [s \in AllPaths |->
     IF s = Str(mkdocs_yml) THEN config
     ELSE IF \E e \in c : Str(e[1]) = s
     THEN LET e == CHOOSE e \in c : Str(e[1]) = s
          IN IF e[2] = "dir" THEN Dir ELSE File(UserText)
     ELSE IF \E e \in c : s \in {Str(a) : a \in WithAncestors(path_parent(e[1]))}
     THEN Dir
     ELSE Absent]

InitialFileSystems ==
  {FileSystemOf(c, config) :
     c \in {c \in Choices(MaxPreexisting) : Consistent(c)},
     config \in {Absent, File(UserText)}}

Init ==
  /\ pc = "main"
  /\ fs \in InitialFileSystems
  /\ stdout = <<>>
  /\ calls = <<>>
  /\ choice = "none"
  /\ termination = "running"
  /\ rounds = 0

(***************************************************************************)
(* main()                                                                  *)
(***************************************************************************)
\* A variant that lets every run pass the check.
config_missing_never(f) == FALSE

config_missing(f) == ~path_exists(f, mkdocs_yml)

\* A variant that writes the placeholders before it installs.
after_step_swapped(step) ==
  CASE step = "config_check" -> "create_directories"
    [] step = "create_directories" -> "create_placeholder_files"
    [] step = "create_placeholder_files" -> "install_dependencies"
    [] step = "install_dependencies" -> "menu"

\* The order of the calls in main(): where it goes when a step returns.
after_step(step) ==
  CASE step = "config_check" -> "create_directories"
    [] step = "create_directories" -> "install_dependencies"
    [] step = "install_dependencies" -> "create_placeholder_files"
    [] step = "create_placeholder_files" -> "menu"

\* The start of main(): the banner and the check of mkdocs.yml.
MainStart ==
  /\ pc = "main"
  /\ IF config_missing(fs)
     THEN /\ stdout' = stdout \o <<"Setting up AgentBridge documentation...",
                                   "Error: mkdocs.yml not found. Please create it first.">>
          /\ termination' = "sys.exit(1)"
          /\ pc' = "terminated"
     ELSE /\ stdout' = Append(stdout, "Setting up AgentBridge documentation...")
          /\ pc' = after_step("config_check")
          /\ UNCHANGED termination
  /\ UNCHANGED <<fs, calls, choice, rounds>>

\* create_directories(), whole; an exception of mkdir ends the run.
CreateDirectories ==
  /\ pc = "create_directories"
  /\ LET r == create_directories(fs, stdout)
     IN /\ fs' = r.fs
        /\ stdout' = r.stdout
        /\ IF r.exc = "none"
           THEN pc' = after_step("create_directories") /\ UNCHANGED termination
           ELSE pc' = "terminated" /\ termination' = r.exc
  /\ UNCHANGED <<calls, choice, rounds>>

\* install_dependencies() starts pip and waits for it.
InstallStart ==
  /\ pc = "install_dependencies"
  /\ calls' = Append(calls, pip_install)
  /\ pc' = "pip_running"
  /\ UNCHANGED <<fs, stdout, choice, termination, rounds>>

\* pip ends, or an interrupt arrives while it runs.
InstallFinish(outcome) ==
  /\ pc = "pip_running"
  /\ LET exc == subprocess_run(outcome)
     IN IF exc = "none"
        THEN /\ stdout' = Append(stdout, "Successfully installed MkDocs and required plugins.")
             /\ pc' = after_step("install_dependencies")
             /\ UNCHANGED termination
        ELSE IF install_dependencies_handler(exc) = "exit"
        THEN /\ stdout' = Append(stdout, "Error installing dependencies: " \o exc)
             /\ termination' = "sys.exit(1)"
             /\ pc' = "terminated"
        ELSE /\ termination' = exc
             /\ pc' = "terminated"
             /\ UNCHANGED stdout
  /\ UNCHANGED <<fs, calls, choice, rounds>>

\* create_placeholder_files(), whole.
CreatePlaceholderFiles ==
  /\ pc = "create_placeholder_files"
  /\ LET r == create_placeholder_files(fs, stdout)
     IN /\ fs' = r.fs
        /\ stdout' = r.stdout
        /\ IF r.exc = "none"
           THEN pc' = after_step("create_placeholder_files") /\ UNCHANGED termination
           ELSE pc' = "terminated" /\ termination' = r.exc
  /\ UNCHANGED <<calls, choice, rounds>>

menu_lines ==
  <<"\nWhat would you like to do next?", "1. Build documentation",
    "2. Serve documentation locally", "3. Exit", "Enter your choice (1-3): ">>

\* What the user may type at the prompt.
Inputs == {"1", "2", "3", "4", "", " 1"}

\* A variant without the branch of "3".
menu_branch_no_exit(c) ==
  IF c = "1" THEN "build"
  ELSE IF c = "2" THEN "serve"
  ELSE "invalid"

\* A variant whose last branch is the exit.
menu_branch_else_exit(c) ==
  IF c = "1" THEN "build"
  ELSE IF c = "2" THEN "serve"
  ELSE "exit"

\* The if/elif chain on choice.
menu_branch(c) ==
  IF c = "1" THEN "build"
  ELSE IF c = "2" THEN "serve"
  ELSE IF c = "3" THEN "exit"
  ELSE "invalid"

\* One pass of the loop up to the call it makes: the menu is printed, a
\* line is read, and the branch of the choice starts.
MenuChoice(input) ==
  /\ pc = "menu"
  /\ rounds < MaxMenuRounds
  /\ rounds' = rounds + 1
  /\ choice' = input
  /\ CASE menu_branch(input) = "build" ->
            /\ stdout' = stdout \o menu_lines
            /\ calls' = Append(calls, mkdocs_build)
            /\ pc' = "build_running"
            /\ UNCHANGED termination
       [] menu_branch(input) = "serve" ->
            /\ stdout' = stdout \o menu_lines
                           \o <<"Serving documentation at http://127.0.0.1:8000/",
                                "Press Ctrl+C to stop the server.">>
            /\ calls' = Append(calls, mkdocs_serve)
            /\ pc' = "serve_running"
            /\ UNCHANGED termination
       [] menu_branch(input) = "exit" ->
            /\ stdout' = stdout \o menu_lines \o <<"Exiting...">>
            /\ pc' = "terminated"
            /\ termination' = "exit 0"
            /\ UNCHANGED calls
       [] menu_branch(input) = "invalid" ->
            /\ stdout' = stdout \o menu_lines \o <<"Invalid choice. Please try again.">>
            /\ pc' = "menu"
            /\ UNCHANGED <<calls, termination>>
  /\ UNCHANGED fs

\* input() raises: an interrupt at the prompt, or the end of the input.
InputRaises(exc) ==
  /\ pc = "menu"
  /\ rounds < MaxMenuRounds
  /\ rounds' = rounds + 1
  /\ stdout' = stdout \o menu_lines
  /\ termination' = exc
  /\ pc' = "terminated"
  /\ UNCHANGED <<fs, calls, choice>>

\* mkdocs build ends, or an interrupt arrives while it runs.
BuildFinish(outcome) ==
  /\ pc = "build_running"
  /\ LET exc == subprocess_run(outcome)
     IN IF exc = "none"
        THEN /\ stdout' = Append(stdout, "Documentation built successfully. You can find the output in the 'site' directory.")
             /\ pc' = "menu"
             /\ UNCHANGED termination
        ELSE IF build_documentation_handler(exc) = "exit"
        THEN /\ stdout' = Append(stdout, "Error building documentation: " \o exc)
             /\ termination' = "sys.exit(1)"
             /\ pc' = "terminated"
        ELSE /\ termination' = exc
             /\ pc' = "terminated"
             /\ UNCHANGED stdout
  /\ UNCHANGED <<fs, calls, choice, rounds>>

\* mkdocs serve ends, or an interrupt arrives while it runs.
ServeFinish(outcome) ==
  /\ pc = "serve_running"
  /\ LET exc == subprocess_run(outcome)
     IN IF exc = "none"
        THEN /\ pc' = "menu"
             /\ UNCHANGED <<stdout, termination>>
        ELSE IF serve_documentation_handler(exc) = "exit"
        THEN /\ stdout' = Append(stdout, "Error serving documentation: " \o exc)
             /\ termination' = "sys.exit(1)"
             /\ pc' = "terminated"
        ELSE IF serve_documentation_handler(exc) = "stopped"
        THEN /\ stdout' = Append(stdout, "\nServer stopped.")
             /\ pc' = "menu"
             /\ UNCHANGED termination
        ELSE /\ termination' = exc
             /\ pc' = "terminated"
             /\ UNCHANGED stdout
  /\ UNCHANGED <<fs, calls, choice, rounds>>

\* The script is run again in the same working directory.
Rerun ==
  /\ pc = "terminated"
  /\ pc' = "main"
  /\ stdout' = <<>>
  /\ calls' = <<>>
  /\ choice' = "none"
  /\ termination' = "running"
  /\ rounds' = 0
  /\ UNCHANGED fs

Next ==
  \/ MainStart
  \/ CreateDirectories
  \/ InstallStart
  \/ \E outcome \in PipOutcomes : InstallFinish(outcome)
  \/ CreatePlaceholderFiles
  \/ \E input \in Inputs : MenuChoice(input)
  \/ \E exc \in {"KeyboardInterrupt", "EOFError"} : InputRaises(exc)
  \/ \E outcome \in MkdocsOutcomes : BuildFinish(outcome)
  \/ \E outcome \in MkdocsOutcomes : ServeFinish(outcome)
  \/ Rerun

Spec == Init /\ [][Next]_vars
(***************************************************************************)
(* The properties.                                                         *)
(***************************************************************************)
Printed(line) == \E i \in 1..Len(stdout) : stdout[i] = line

Count(seq, x) == Cardinality({i \in 1..Len(seq) : seq[i] = x})

MenuShown == \E i \in 1..Len(stdout) : stdout[i] \in Range(menu_lines)

ConfigAbsent == fs["mkdocs.yml"].kind = "absent"

\* C1: when mkdocs.yml is absent at the start of main(), the run prints the
\* error and ends with a non-zero exit code, and in it no directory is
\* made, pip is never started, no placeholder is written and the menu is
\* never shown.
C1_MissingConfigAborts ==
  /\ [](ConfigAbsent =>
          /\ pc \in {"main", "terminated"}
          /\ calls = <<>>
          /\ ~MenuShown
          /\ pc = "terminated" =>
               /\ termination = "sys.exit(1)"
               /\ Printed("Error: mkdocs.yml not found. Please create it first."))
  /\ [][ConfigAbsent => fs' = fs]_vars

C1_Witness ==
  /\ ConfigAbsent
  /\ pc = "terminated"
  /\ termination = "sys.exit(1)"
  /\ Printed("Error: mkdocs.yml not found. Please create it first.")

\* The title of a page as the specification words it: the stem with every
\* hyphen a space and the first letter of every word a capital.
TitleOfStem(cs) ==
  LET stem == path_stem(cs)
  IN Str([i \in 1..Len(stem) |->
            IF stem[i] = "-" THEN " "
            ELSE IF i = 1 \/ stem[i - 1] = "-" THEN toupper(stem[i])
            ELSE stem[i]])

\* C2: when create_placeholder_files has run after create_directories,
\* every expected file exists; one that was absent holds the title derived
\* from its stem, one that was there is unchanged; and no step of any run
\* changes a file that exists.
C2_PlaceholdersNeverOverwrite ==
  /\ [][(pc = "create_placeholder_files" /\ pc' = "menu") =>
          \A i \in 1..Len(expected_files) :
            LET s == Str(expected_files[i])
            IN IF fs[s].kind = "absent"
               THEN /\ fs'[s].kind = "file"
                    /\ TitleOfStem(expected_files[i]) \in Range(fs'[s].content)
               ELSE fs'[s] = fs[s]]_vars
  /\ [][\A s \in AllPaths : fs[s].kind = "file" => fs'[s] = fs[s]]_vars
  /\ [](pc = "menu" =>
          \A i \in 1..Len(expected_files) :
            fs[Str(expected_files[i])].kind # "absent")

\* The placeholders are written beside a page of the user, which is kept.
C2_Witness ==
  /\ pc = "menu"
  /\ \E i \in 1..Len(expected_files) :
       fs[Str(expected_files[i])] = File(UserText)
  /\ \E i \in 1..Len(expected_files) :
       /\ fs[Str(expected_files[i])].kind = "file"
       /\ fs[Str(expected_files[i])].content # UserText
       /\ "Api Reference" \in Range(fs[Str(expected_files[i])].content)

\* C3: create_directories is idempotent: after it every directory of
\* DOCS_DIRS and every ancestor exists; where all of them exist already it
\* raises nothing and changes nothing; for a directory that is already
\* there it is a no-op, and it reports a creation for each directory of
\* the list that it creates, and for no other.
C3_CreateDirectoriesIdempotent ==
  [][(pc = "create_directories" /\ pc' # "terminated") =>
       /\ \A d \in DirPaths : fs'[Str(d)].kind = "dir"
       /\ (\A d \in DirPaths : fs[Str(d)].kind = "dir") => fs' = fs
       /\ \A i \in 1..Len(DOCS_DIRS) :
            LET d == DOCS_DIRS[i]
                reported == Count(stdout', created_directory_line(d))
                              > Count(stdout, created_directory_line(d))
            IN reported <=> fs[Str(d)].kind = "absent"]_vars

\* The part of C3 about the file system alone: once create_directories
\* has returned, running it again raises nothing and changes no path.
C3_FileSystemIdempotent ==
  pc \in {"install_dependencies", "pip_running", "create_placeholder_files",
          "menu", "build_running", "serve_running"} =>
    /\ \A d \in DirPaths : fs[Str(d)].kind = "dir"
    /\ create_directories(fs, <<>>).exc = "none"
    /\ create_directories(fs, <<>>).fs = fs

PipCalls == Count(calls, pip_install)

InstallError == "Error installing dependencies: CalledProcessError"

\* The lines and the path strings the properties look for.
DirectoryLines ==
  {"Created directory: " \o Str(DOCS_DIRS[i]) : i \in 1..Len(DOCS_DIRS)}

PlaceholderLines ==
  {"Created placeholder file: " \o Str(expected_files[i]) :
     i \in 1..Len(expected_files)}

DirNames == {Str(d) : d \in DirPaths}

DocsDirNames == {Str(DOCS_DIRS[i]) : i \in 1..Len(DOCS_DIRS)}

FileNames == {Str(f) : f \in FilePaths}

PageNames == {Str(expected_files[i]) : i \in 1..Len(expected_files)}

PlaceholderPrinted == \E i \in 1..Len(stdout) : stdout[i] \in PlaceholderLines

\* C4 as stated: pip is started exactly once in every run that passes the
\* config check; when it exits non-zero the run prints the error and ends
\* with a non-zero exit code, no placeholder written and no menu shown.
C4_InstallExactlyOncePerRun ==
  /\ PipCalls <= 1
  /\ (pc = "terminated" /\ ~ConfigAbsent) => PipCalls = 1
  /\ (pc = "terminated" /\ Printed(InstallError)) =>
       /\ termination = "sys.exit(1)"
       /\ ~PlaceholderPrinted
       /\ ~MenuShown

ScaffoldReturned == DirectoryLines \subseteq Range(stdout)

\* C4, amended: pip is started at most once in a run, and exactly once in
\* every run that passes the config check and whose create_directories
\* returns; when it exits non-zero the run prints the error and ends with
\* a non-zero exit code, no file written and no menu shown.
C4_InstallOnceAfterScaffold ==
  /\ [](/\ PipCalls <= 1
        /\ (pc = "terminated" /\ ~ConfigAbsent /\ ScaffoldReturned) => PipCalls = 1
        /\ (pc = "terminated" /\ Printed(InstallError)) =>
             /\ termination = "sys.exit(1)"
             /\ ~PlaceholderPrinted
             /\ ~MenuShown)
  /\ [][InstallFinish("exit_nonzero") =>
          /\ stdout' = Append(stdout, InstallError)
          /\ pc' = "terminated"
          /\ termination' = "sys.exit(1)"
          /\ fs' = fs
          /\ calls' = calls]_vars

C4_Witness ==
  /\ pc = "terminated"
  /\ termination = "sys.exit(1)"
  /\ stdout[Len(stdout)] = InstallError
  /\ PipCalls = 1

BuildError == "Error building documentation: CalledProcessError"

ServeError == "Error serving documentation: CalledProcessError"

\* C5: when the choice is "1" and mkdocs build exits non-zero, the run
\* prints the error and ends with a non-zero exit code, the menu not shown
\* again; the same for "2" and mkdocs serve.
C5_FailedBuildOrServeExits ==
  /\ [][BuildFinish("exit_nonzero") =>
          /\ choice = "1"
          /\ stdout' = Append(stdout, BuildError)
          /\ pc' = "terminated"
          /\ termination' = "sys.exit(1)"]_vars
  /\ [][ServeFinish("exit_nonzero") =>
          /\ choice = "2"
          /\ stdout' = Append(stdout, ServeError)
          /\ pc' = "terminated"
          /\ termination' = "sys.exit(1)"]_vars
  /\ [](Printed(BuildError) \/ Printed(ServeError) =>
          /\ pc = "terminated"
          /\ termination = "sys.exit(1)"
          /\ stdout[Len(stdout)] \in {BuildError, ServeError})

C5_Witness ==
  /\ pc = "terminated"
  /\ choice = "1"
  /\ calls[Len(calls)] = mkdocs_build
  /\ stdout[Len(stdout)] = BuildError
  /\ termination = "sys.exit(1)"

\* C6: when the choice is "2" and an interrupt arrives while mkdocs serve
\* runs, the run prints the stopped message and is back at the menu: the
\* process goes on and the next choice is read.
C6_InterruptedServeReturnsToMenu ==
  /\ [][ServeFinish("interrupt") =>
          /\ choice = "2"
          /\ stdout' = Append(stdout, "\nServer stopped.")
          /\ pc' = "menu"
          /\ termination' = "running"]_vars
  /\ [](Len(stdout) > 0 /\ stdout[Len(stdout)] = "\nServer stopped." =>
          pc = "menu" /\ termination = "running")

\* After the stopped message the menu is shown again and a choice is made.
C6_Witness ==
  \E i \in 1..Len(stdout) :
    /\ stdout[i] = "\nServer stopped."
    /\ i + Len(menu_lines) < Len(stdout)
    /\ stdout[i + 1] = menu_lines[1]
    /\ choice = "4"
    /\ pc = "menu"

\* C7: on the choice "3" the run prints the exit message, leaves the loop
\* and ends with exit code 0, and starts neither mkdocs build nor mkdocs
\* serve.
C7_ExitChoice ==
  /\ [][MenuChoice("3") =>
          /\ stdout' = stdout \o menu_lines \o <<"Exiting...">>
          /\ pc' = "terminated"
          /\ termination' = "exit 0"
          /\ calls' = calls
          /\ fs' = fs]_vars
  /\ [](termination = "exit 0" <=> (pc = "terminated" /\ choice = "3"))

C7_Witness ==
  /\ pc = "terminated"
  /\ termination = "exit 0"
  /\ choice = "3"
  /\ stdout[Len(stdout)] = "Exiting..."
  /\ calls = <<pip_install>>

\* C8: on any input other than "1", "2" and "3" the run prints the
\* invalid-choice message and prompts again: no child process is started,
\* no file or directory changes and the process goes on.
C8_InvalidChoiceReprompts ==
  [][\A input \in Inputs \ {"1", "2", "3"} :
       MenuChoice(input) =>
         /\ stdout' = stdout \o menu_lines \o <<"Invalid choice. Please try again.">>
         /\ pc' = "menu"
         /\ termination' = "running"
         /\ calls' = calls
         /\ fs' = fs]_vars

\* An invalid choice, and a choice read after it.
C8_Witness ==
  /\ Printed("Invalid choice. Please try again.")
  /\ stdout[Len(stdout)] # "Invalid choice. Please try again."
  /\ choice = "1"
  /\ pc = "build_running"

Banner == "Setting up AgentBridge documentation..."

InstallSucceeded == Printed("Successfully installed MkDocs and required plugins.")

DirsMade == \A d \in DocsDirNames : fs[d].kind = "dir"

PagesExist == \A f \in PageNames : fs[f].kind # "absent"

\* The lines of out that are in the set lines, in their order.
Those(out, lines) == SelectSeq(out, LAMBDA line : line \in lines)

NoRepeat(seq) == \A i, j \in 1..Len(seq) : seq[i] = seq[j] => i = j

SetupLines ==
  DirectoryLines \cup PlaceholderLines
    \cup {Banner, architecture_note,
          "Successfully installed MkDocs and required plugins."}

\* The steps of a run, by what they do.
ScaffoldStep ==
  \/ \E d \in DirNames : fs'[d] # fs[d]
  \/ Len(Those(stdout', DirectoryLines)) > Len(Those(stdout, DirectoryLines))

InstallStep == Count(calls', pip_install) > Count(calls, pip_install)

PlaceholderStep ==
  \/ \E f \in FileNames : fs'[f] # fs[f]
  \/ Len(Those(stdout', PlaceholderLines \cup {architecture_note}))
       > Len(Those(stdout, PlaceholderLines \cup {architecture_note}))

MenuStep == Count(stdout', menu_lines[1]) > Count(stdout, menu_lines[1])

\* C9: in every run the steps come in the order config check, scaffold,
\* install, placeholders, menu: each setup step runs at most once, a step
\* starts only when the one before it has returned, the menu is first
\* shown only when the three setup steps are done, and no setup step runs
\* from inside the menu loop.
C9_StrictOrder ==
  /\ [](PipCalls <= 1 /\ NoRepeat(Those(stdout, SetupLines)))
  /\ [][/\ ScaffoldStep =>
             /\ ~ConfigAbsent
             /\ stdout = <<Banner>>
             /\ calls = <<>>
        /\ InstallStep =>
             /\ DirsMade
             /\ ScaffoldReturned
             /\ calls = <<>>
             /\ ~PlaceholderPrinted
             /\ ~Printed(architecture_note)
             /\ ~MenuShown
        /\ PlaceholderStep =>
             /\ DirsMade
             /\ PipCalls = 1
             /\ InstallSucceeded
             /\ ~MenuShown
        /\ MenuStep =>
             /\ DirsMade
             /\ PipCalls = 1
             /\ InstallSucceeded
             /\ PagesExist
        /\ (MenuShown /\ pc # "terminated") =>
             /\ ~ScaffoldStep
             /\ ~InstallStep
             /\ ~PlaceholderStep
             /\ fs' = fs]_vars

\* A second pass of the menu loop, after a first run of the three steps.
C9_Witness ==
  /\ pc = "menu"
  /\ Count(stdout, menu_lines[1]) = 2
  /\ PlaceholderPrinted
  /\ InstallSucceeded
  /\ ScaffoldReturned

\* C10: an interrupt that arrives while pip or mkdocs build runs is not
\* caught: it ends the run as an unhandled KeyboardInterrupt, and control
\* does not return to the menu.
C10_InterruptOutsideServePropagates ==
  /\ [][InstallFinish("interrupt") \/ BuildFinish("interrupt") =>
          /\ pc' = "terminated"
          /\ termination' = "KeyboardInterrupt"
          /\ stdout' = stdout]_vars
  /\ [](termination = "KeyboardInterrupt" => pc = "terminated" /\ NonZeroExit)

\* The interrupt arrived while mkdocs build ran.
C10_Witness ==
  /\ pc = "terminated"
  /\ termination = "KeyboardInterrupt"
  /\ choice = "1"
  /\ rounds = 1
  /\ calls = <<pip_install, mkdocs_build>>

====
